---------------------------- MODULE Spec2Model ----------------------------
(***************************************************************************)
(* Model of predict.py: the Predictor of a hosted SDXL inference endpoint. *)
(* One worker handles one request at a time.  A request runs in four       *)
(* sequential steps: validation and pipeline/adapter loading, the base     *)
(* pipeline call, the optional refiner call, and saving the outputs; then  *)
(* the call returns and its local variables are gone.                      *)
(* The diffusion library is external: a pipeline call is modelled by the   *)
(* arguments it receives and an output whose image count the library       *)
(* chooses.                                                                *)
(***************************************************************************)
EXTENDS Integers, Sequences, FiniteSets, TLC

VARIABLES
    phase,      \* "constructed" before setup(), "ready" after it
    pc,         \* position inside predict(): "idle", "base", "refine", "save", "done"
    req,        \* arguments of the predict() call in progress / last accepted
    self,       \* the Predictor's attributes: attribute name -> value
    disk,       \* ./trained-model : file name -> archive the file came from
    tmp,        \* /tmp/out-<i>.png : i -> image stored there
    fetches,    \* number of requests.get() calls made so far
    accepted,   \* number of predict() calls that passed the lora_url check
    nPredicts,  \* number of predict() calls made so far
    calls,      \* pipeline invocations of the current request, in order,
                \* each with its arguments and what it returned
    common_args,\* the local variable `common_args` of predict()
    output,     \* the local variable `output` of predict()
    result      \* outcome of the last predict() call

vars == <<phase, pc, req, self, disk, tmp, fetches, accepted, nPredicts,
          calls, common_args, output, result>>

----------------------------------------------------------------------------
(* Bounds of the model *)

MaxPredicts == 2
MaxOutputs == 2

(* Python's None for optional arguments: an optional value is <<>> or <<v>> *)
None == <<>>
Some(v) == <<v>>
NoneUrl == "None"

(* Truthiness of an Optional[int] / Optional[Path] *)
Truthy(opt) == opt # None /\ opt[1] # 0

----------------------------------------------------------------------------
(* The remote adapter archives.  urlA carries full UNet weights, urlB      *)
(* carries LoRA weights.                                                   *)

Archives == {"urlA", "urlB"}

ArchiveFiles(u) ==
    IF u = "urlA"
    THEN {"unet.safetensors", "embeddings.pti", "special_params.json"}
    ELSE {"lora.safetensors", "embeddings.pti", "special_params.json"}

(* content of special_params.json of archive u *)
TokenMapOf(u) == ("TOK" :> ("<s0>@" \o u))

(* Sizes (width, height) of the image files a request can name *)
ImageSizes == { <<100, 128>> }
MaskSizes == { <<130, 64>> }

Block == 64

----------------------------------------------------------------------------
(* Helpers *)

Put(f, k, v) == (k :> v) @@ f

Range(s) == { s[i] : i \in DOMAIN s }

(* math.ceil(a / b) for positive b *)
Ceil(a, b) == (a + b - 1) \div b

(* load_image rounding down instead of up *)
load_image_floor(size) ==
    <<(size[1] \div Block) * Block, (size[2] \div Block) * Block>>

(* Predictor.load_image: the returned image's size *)
load_image(size) ==
    LET width == size[1]
        height == size[2]
        new_width == Ceil(width, Block) * Block
        new_height == Ceil(height, Block) * Block
    IN  <<new_width, new_height>>

(* tar_ref.extractall("trained-model"): files of the archive overwrite     *)
(* files of the same name, all other files stay.                           *)
Extract(d, u) ==
    [f \in (DOMAIN d) \cup ArchiveFiles(u) |->
        IF f \in ArchiveFiles(u) THEN u ELSE d[f]]

(* prompt.replace(k, v) for every item of token_map; a prompt is a         *)
(* sequence of words.                                                      *)
ReplaceTokens(prompt, token_map) ==
    [i \in DOMAIN prompt |->
        IF prompt[i] \in DOMAIN token_map THEN token_map[prompt[i]]
        ELSE prompt[i]]

(* A freshly constructed pipeline object *)
NewPipe(cls, unet, embeddings) ==
    [cls |-> cls, watermark |-> "watermarker", scheduler |-> "default",
     unet |-> unet, embeddings |-> embeddings]

(* load_trained_weights that reuses the extracted archive once a model    *)
(* has been tuned in this process                                          *)
load_trained_weights_cached(s, d, weights_url) ==
    LET d2 == IF s["tuned_model"] THEN d ELSE Extract(d, weights_url)
        is_lora == ~("unet.safetensors" \in DOMAIN d2)
        unet == IF ~is_lora
                THEN [kind |-> "unet", from |-> d2["unet.safetensors"]]
                ELSE [kind |-> "lora", from |-> d2["lora.safetensors"]]
        pipe == NewPipe("StableDiffusionXLPipeline", unet, d2["embeddings.pti"])
        s1 == Put(s, "is_lora", is_lora)
        s2 == Put(s1, "token_map", TokenMapOf(d2["special_params.json"]))
        s3 == Put(s2, "tuned_model", TRUE)
    IN  [self |-> s3, disk |-> d2, pipe |-> pipe,
         fetched |-> IF s["tuned_model"] THEN 0 ELSE 1]

(* Predictor.load_trained_weights, given the attributes s and the          *)
(* extraction directory d; returns the new attributes, directory, the      *)
(* merged pipeline and the number of requests.get() calls made.            *)
load_trained_weights(s, d, weights_url) ==
    LET d2 == Extract(d, weights_url)
        is_lora == ~("unet.safetensors" \in DOMAIN d2)
        unet == IF ~is_lora
                THEN [kind |-> "unet", from |-> d2["unet.safetensors"]]
                ELSE [kind |-> "lora", from |-> d2["lora.safetensors"]]
        pipe == NewPipe("StableDiffusionXLPipeline", unet, d2["embeddings.pti"])
        s1 == Put(s, "is_lora", is_lora)
        s2 == Put(s1, "token_map", TokenMapOf(d2["special_params.json"]))
        s3 == Put(s2, "tuned_model", TRUE)
    IN  [self |-> s3, disk |-> d2, pipe |-> pipe, fetched |-> 1]

----------------------------------------------------------------------------
(* Initial state: the Predictor object exists, setup() has not run, the    *)
(* container's transient storage is empty.                                 *)

NoReq == [lora_url |-> NoneUrl]
NoOutput == [images |-> <<>>, type |-> "none", stage |-> "none"]
NoResult == [status |-> "none", paths |-> <<>>]

Init ==
    /\ phase = "constructed"
    /\ pc = "idle"
    /\ req = NoReq
    /\ self = <<>>
    /\ disk = <<>>
    /\ tmp = <<>>
    /\ fetches = 0
    /\ accepted = 0
    /\ nPredicts = 0
    /\ calls = <<>>
    /\ common_args = <<>>
    /\ output = NoOutput
    /\ result = NoResult

(* Predictor.setup *)
Setup ==
    /\ phase = "constructed"
    /\ phase' = "ready"
    /\ self' = Put(self, "tuned_model", FALSE)
    /\ UNCHANGED <<pc, req, disk, tmp, fetches, accepted, nPredicts, calls,
                   common_args, output, result>>

(* The argument values a request is drawn from *)
Requests ==
    [lora_url : Archives \cup {NoneUrl},
     prompt : { <<"photo", "of", "TOK">> },
     negative_prompt : { "" },
     image : {None} \cup ImageSizes,
     mask : {None} \cup MaskSizes,
     size : { <<1024, 1000>> },
     num_outputs : 1..MaxOutputs,
     scheduler : { "K_EULER" },
     num_inference_steps : { 50 },
     guidance_scale : { 75 },
     prompt_strength : { 8 },
     refine : { "no_refiner", "expert_ensemble_refiner", "base_image_refiner" },
     high_noise_frac : { 8 },
     refine_steps : { None, Some(0), Some(20) },
     apply_watermark : BOOLEAN,
     lora_scale : { 6 }]

(* the lora_url check left out *)
MissingUrl_dropped(r) == FALSE

(* predict(), line 268: the lora_url check *)
MissingUrl(r) == r.lora_url = NoneUrl

(* predict(), lines 267-271: lora_url is None, the call raises *)
PredictMissingUrl(r) ==
    /\ req' = r
    /\ result' = [status |-> "missing_lora_url", paths |-> <<>>]
    /\ pc' = "done"
    /\ UNCHANGED <<phase, self, disk, tmp, fetches, accepted, calls,
                   common_args, output>>

(* predict(), lines 273-323: the pipelines are built and the adapter is    *)
(* fetched, extracted and merged.                                          *)
PredictLoad(r) ==
    /\ LET s0 == Put(self, "is_lora", TRUE)
           ld == load_trained_weights(s0, disk, r.lora_url)
           txt2img == ld.pipe
           s1 == Put(ld.self, "txt2img_pipe", txt2img)
           s2 == Put(s1, "is_lora", TRUE)
           s3 == Put(s2, "img2img_pipe",
                     NewPipe("StableDiffusionXLImg2ImgPipeline",
                             txt2img.unet, txt2img.embeddings))
           s4 == Put(s3, "inpaint_pipe",
                     NewPipe("StableDiffusionXLInpaintPipeline",
                             txt2img.unet, txt2img.embeddings))
           s5 == Put(s4, "refiner",
                     NewPipe("refiner",
                             [kind |-> "refiner", from |-> "refiner-cache"],
                             txt2img.embeddings))
       IN  /\ self' = s5
           /\ disk' = ld.disk
           /\ fetches' = fetches + ld.fetched
    /\ req' = r
    /\ accepted' = accepted + 1
    /\ calls' = <<>>
    /\ common_args' = <<>>
    /\ output' = NoOutput
    /\ result' = [status |-> "running", paths |-> <<>>]
    /\ pc' = "base"
    /\ UNCHANGED <<phase, tmp>>

(* predict(), lines 185-323: a request arrives with its arguments *)
Predict ==
    /\ phase = "ready" /\ pc = "idle"
    /\ nPredicts < MaxPredicts
    /\ nPredicts' = nPredicts + 1
    /\ \E r \in Requests :
         IF MissingUrl(r) THEN PredictMissingUrl(r) ELSE PredictLoad(r)

(* Images a pipeline call returns: the library decides how many, at most   *)
(* one per prompt of the batch and, in the refiner, per input latent.      *)
Images(stage, n) == [i \in 1..n |-> [stage |-> stage, k |-> i]]

(* the generation mode with the img2img test ahead of the inpaint test *)
Mode_swapped(r) ==
    IF r.image # None THEN "img2img" ELSE "txt2img"

(* predict(), lines 382-405: the generation mode *)
Mode(r) ==
    IF r.image # None /\ r.mask # None THEN "inpaint"
    ELSE IF r.image # None THEN "img2img"
    ELSE "txt2img"

PipeOf(mode) ==
    IF mode = "inpaint" THEN "inpaint_pipe"
    ELSE IF mode = "img2img" THEN "img2img_pipe"
    ELSE "txt2img_pipe"

(* predict(), lines 376-411 and 430-431: sdxl_kwargs *)
ModeKwargs(r) ==
    IF Mode(r) = "inpaint"
    THEN LET loaded_image == load_image(r.image)
         IN  ("image" :> loaded_image) @@
             ("mask_image" :> load_image(r.mask)) @@
             ("strength" :> r.prompt_strength) @@
             ("target_size" :> loaded_image) @@
             ("original_size" :> loaded_image)
    ELSE IF Mode(r) = "img2img"
    THEN ("image" :> load_image(r.image)) @@
         ("strength" :> r.prompt_strength)
    ELSE ("width" :> r.size[1]) @@ ("height" :> r.size[2])

(* base_image_refiner not switching the base stage to latent output *)
RefineKwargs_nolatent(r) ==
    IF r.refine = "expert_ensemble_refiner"
    THEN ("output_type" :> "latent") @@ ("denoising_end" :> r.high_noise_frac)
    ELSE <<>>

RefineKwargs(r) ==
    IF r.refine = "expert_ensemble_refiner"
    THEN ("output_type" :> "latent") @@ ("denoising_end" :> r.high_noise_frac)
    ELSE IF r.refine = "base_image_refiner"
    THEN ("output_type" :> "latent")
    ELSE <<>>

LoraKwargs(s, r) ==
    IF s["is_lora"]
    THEN ("cross_attention_kwargs" :> [scale |-> r.lora_scale])
    ELSE <<>>

SdxlKwargs(s, r) == ModeKwargs(r) @@ RefineKwargs(r) @@ LoraKwargs(s, r)

(* predict(), lines 376-380 and 422-428: common_args *)
CommonArgs(s, r) ==
    LET prompt == IF s["tuned_model"]
                  THEN ReplaceTokens(r.prompt, s["token_map"])
                  ELSE r.prompt
    IN  [prompt |-> [i \in 1..r.num_outputs |-> prompt],
         negative_prompt |-> [i \in 1..r.num_outputs |-> r.negative_prompt],
         guidance_scale |-> r.guidance_scale,
         num_inference_steps |-> r.num_inference_steps]

(* predict(), lines 413-419: the watermark toggle and the scheduler swap   *)
(* on the selected base pipeline.                                          *)
ConfigurePipe(pipe, r) ==
    [pipe EXCEPT !.watermark = IF ~r.apply_watermark THEN "None" ELSE @,
                 !.scheduler = r.scheduler]

(* predict(), lines 372-433: the base pipeline call *)
RunBase ==
    /\ pc = "base"
    /\ LET name == PipeOf(Mode(req))
           pipe == ConfigurePipe(self[name], req)
           args == CommonArgs(self, req)
           kwargs == SdxlKwargs(self, req)
           latent == "output_type" \in DOMAIN kwargs
       IN  /\ self' = Put(self, name, pipe)
           /\ common_args' = args
           /\ \E n \in 0..req.num_outputs :
                output' = [images |-> Images("base", n),
                           type |-> IF latent THEN "latent" ELSE "pil",
                           stage |-> "base"]
           /\ calls' = Append(calls, [pipe |-> name, common |-> args,
                                      kwargs |-> kwargs,
                                      watermark |-> pipe.watermark,
                                      returned |-> output'])
    /\ pc' = IF req.refine \in {"expert_ensemble_refiner", "base_image_refiner"}
             THEN "refine" ELSE "save"
    /\ UNCHANGED <<phase, req, disk, tmp, fetches, accepted, nPredicts, result>>

(* predict(), lines 435-445: refiner_kwargs and the refiner's step count *)
RefinerKwargs(r, out) ==
    IF r.refine = "expert_ensemble_refiner"
    THEN ("image" :> out.images) @@ ("denoising_start" :> r.high_noise_frac)
    ELSE ("image" :> out.images)

RefinerCommonArgs(args, r) ==
    IF r.refine = "base_image_refiner" /\ Truthy(r.refine_steps)
    THEN [args EXCEPT !.num_inference_steps = r.refine_steps[1]]
    ELSE args

(* predict(), lines 435-445: the refiner call *)
RunRefiner ==
    /\ pc = "refine"
    /\ LET kwargs == RefinerKwargs(req, output)
           args == RefinerCommonArgs(common_args, req)
       IN  /\ common_args' = args
           /\ \E n \in 0..Len(output.images) :
                output' = [images |-> Images("refiner", n), type |-> "pil",
                           stage |-> "refiner"]
           /\ calls' = Append(calls, [pipe |-> "refiner", common |-> args,
                                      kwargs |-> kwargs,
                                      watermark |-> self["refiner"].watermark,
                                      returned |-> output'])
    /\ pc' = "save"
    /\ UNCHANGED <<phase, req, self, disk, tmp, fetches, accepted, nPredicts,
                   result>>

(* the save loop skipping the last image *)
OutputPaths_skip(images) == [j \in 1..(Len(images) - 1) |-> j - 1]

(* predict(), lines 447-454: image i is saved to /tmp/out-<i>.png; a path  *)
(* is modelled by its number i.                                            *)
OutputPaths(images) == [j \in 1..Len(images) |-> j - 1]

SaveImages(t, images) ==
    [p \in (DOMAIN t) \cup Range(OutputPaths(images)) |->
        IF p \in Range(OutputPaths(images)) THEN images[p + 1] ELSE t[p]]

(* predict(), lines 447-461: saving and the result *)
SaveOutputs ==
    /\ pc = "save"
    /\ LET output_paths == OutputPaths(output.images)
       IN  /\ tmp' = SaveImages(tmp, output.images)
           /\ result' = IF Len(output_paths) = 0
                         THEN [status |-> "no_images", paths |-> <<>>]
                         ELSE [status |-> "returned", paths |-> output_paths]
    /\ pc' = "done"
    /\ UNCHANGED <<phase, req, self, disk, fetches, accepted, nPredicts, calls,
                   common_args, output>>

(* predict() has returned or raised: the worker takes the next request *)
Return ==
    /\ pc = "done"
    /\ pc' = "idle"
    /\ req' = NoReq
    /\ calls' = <<>>
    /\ common_args' = <<>>
    /\ output' = NoOutput
    /\ result' = NoResult
    /\ UNCHANGED <<phase, self, disk, tmp, fetches, accepted, nPredicts>>

Next ==
    \/ Setup
    \/ Predict
    \/ RunBase
    \/ RunRefiner
    \/ SaveOutputs
    \/ Return

Spec == Init /\ [][Next]_vars

----------------------------------------------------------------------------
(* Properties *)

Refiners == {"expert_ensemble_refiner", "base_image_refiner"}

(* a request that passed the lora_url check is in progress or just ended *)
InRequest == pc # "idle" /\ req.lora_url # NoneUrl

(* the base pipeline has been called for the current request *)
BaseCalled == InRequest /\ Len(calls) >= 1

(* the current request has run to its end (returned or raised in the save) *)
Finished == InRequest /\ pc = "done"

IsMultiple(n) == n % Block = 0

IsRoundUp(orig, new) == IsMultiple(new) /\ new >= orig /\ new - orig < Block

(* C1 as stated: the remote adapter archive is fetched from the network at *)
(* most once in a run of one setup and any number of predict requests.     *)
C1_FetchedAtMostOnce == fetches <= 1

(* C1 amended: setup fetches nothing and every predict request that passes *)
(* the lora_url check fetches the archive exactly once, so the number of   *)
(* fetches equals the number of such requests.                             *)
C1_FetchPerRequest ==
    /\ fetches = accepted
    /\ (phase = "constructed" => fetches = 0)

C1_Witness == Finished /\ accepted = 2 /\ fetches = 2

(* C2: predict runs the base generation on exactly one pipeline: inpaint   *)
(* iff image and mask are given, img2img iff image is given and mask is    *)
(* not, txt2img otherwise; width and height are passed only in txt2img     *)
(* mode and strength only in the two image-conditioned modes.              *)
C2_ModeSelection ==
    /\ InRequest =>
        Cardinality({i \in DOMAIN calls : calls[i].pipe # "refiner"})
            = IF pc = "base" THEN 0 ELSE 1
    /\ BaseCalled =>
        LET c == calls[1]
            img == req.image # None
            msk == req.mask # None
            keys == DOMAIN c.kwargs
        IN  /\ (c.pipe = "inpaint_pipe") <=> (img /\ msk)
            /\ (c.pipe = "img2img_pipe") <=> (img /\ ~msk)
            /\ (c.pipe = "txt2img_pipe") <=> ~img
            /\ ("width" \in keys) <=> (c.pipe = "txt2img_pipe")
            /\ ("height" \in keys) <=> (c.pipe = "txt2img_pipe")
            /\ ("strength" \in keys) <=> (c.pipe # "txt2img_pipe")
            /\ ("strength" \in keys) => c.kwargs["strength"] = req.prompt_strength
            /\ ("mask_image" \in keys) <=> (c.pipe = "inpaint_pipe")

C2_Witness ==
    /\ Finished /\ req.image = None /\ req.mask # None
    /\ calls[1].pipe = "txt2img_pipe"

(* C3: a predict request whose lora_url is None ends in an error before    *)
(* any effect: no pipeline is loaded or called, nothing is fetched or      *)
(* extracted, no output file is written, the predictor's fields are        *)
(* unchanged.                                                              *)
C3_MissingUrlNoEffect ==
    [][(pc = "idle" /\ pc' # "idle" /\ req'.lora_url = NoneUrl) =>
          /\ result'.status = "missing_lora_url"
          /\ pc' = "done"
          /\ UNCHANGED <<self, disk, tmp, fetches, accepted, calls, output>>]_vars

C3_Witness ==
    /\ pc = "done" /\ req.lora_url = NoneUrl
    /\ result.status = "missing_lora_url"
    /\ accepted = 1 /\ "txt2img_pipe" \in DOMAIN self

(* C4: a predict request that returns returns a non-empty list with one    *)
(* path per image of the final stage, the i-th path being the file the     *)
(* i-th image was saved to; with zero images the request raises.           *)
C4_ResultPaths ==
    Finished =>
        /\ output.stage = IF req.refine \in Refiners THEN "refiner" ELSE "base"
        /\ result.status \in {"returned", "no_images"}
        /\ (result.status = "no_images") <=> (Len(output.images) = 0)
        /\ result.status = "no_images" => result.paths = <<>>
        /\ result.status = "returned" =>
            /\ Len(result.paths) = Len(output.images)
            /\ Len(result.paths) >= 1
            /\ \A i \in DOMAIN result.paths :
                /\ result.paths[i] \in DOMAIN tmp
                /\ tmp[result.paths[i]] = output.images[i]
                /\ \A j \in DOMAIN result.paths :
                    i < j => result.paths[i] < result.paths[j]

C4_Witness ==
    /\ Finished /\ result.status = "returned"
    /\ Len(result.paths) = 2 /\ output.stage = "refiner"

(* C5 as stated: with apply_watermark false the stage that produces the    *)
(* returned images has no watermarker, for every mode and refine setting;  *)
(* with apply_watermark true it has one, whatever earlier requests asked.  *)
C5_WatermarkDisabled ==
    (Finished /\ result.status = "returned") =>
        LET final == calls[Len(calls)]
        IN  IF req.apply_watermark
            THEN final.watermark = "watermarker"
            ELSE final.watermark = "None"

(* C6 as stated: in every generation mode the dimensions handed to the     *)
(* base pipeline are multiples of 64.                                      *)
C6_AllDimsMultiple ==
    BaseCalled =>
        LET kw == calls[1].kwargs
        IN  /\ \A k \in DOMAIN kw \cap {"width", "height"} : IsMultiple(kw[k])
            /\ \A k \in DOMAIN kw \cap {"image", "mask_image", "target_size",
                                        "original_size"} :
                  IsMultiple(kw[k][1]) /\ IsMultiple(kw[k][2])

(* C6 amended: load_image returns the smallest multiples of 64 not below   *)
(* the original width and height, and in the image-conditioned modes the   *)
(* image, mask, target_size and original_size handed to the base pipeline  *)
(* are such multiples; in text-to-image mode the requested width and       *)
(* height are handed over as given, not rounded.                           *)
C6_ImageDimsRounded ==
    BaseCalled =>
        LET kw == calls[1].kwargs
        IN  /\ "image" \in DOMAIN kw =>
                /\ IsRoundUp(req.image[1], kw["image"][1])
                /\ IsRoundUp(req.image[2], kw["image"][2])
            /\ "mask_image" \in DOMAIN kw =>
                /\ IsRoundUp(req.mask[1], kw["mask_image"][1])
                /\ IsRoundUp(req.mask[2], kw["mask_image"][2])
            /\ \A k \in DOMAIN kw \cap {"target_size", "original_size"} :
                kw[k] = kw["image"]
            /\ "width" \in DOMAIN kw =>
                kw["width"] = req.size[1] /\ kw["height"] = req.size[2]

C6_Witness ==
    /\ Finished /\ calls[1].pipe = "inpaint_pipe"
    /\ calls[1].kwargs["image"] = <<128, 128>>
    /\ calls[1].kwargs["target_size"] = <<128, 128>>
    /\ calls[1].kwargs["mask_image"] = <<192, 64>>

(* C7 as stated: the base pipeline call carries cross_attention_kwargs     *)
(* {scale: lora_scale} iff the request's archive has no unet.safetensors;  *)
(* with full UNet weights is_lora is false at the call and no scale is     *)
(* passed.                                                                 *)
C7_ScaleOnlyForLora ==
    BaseCalled =>
        LET kw == calls[1].kwargs
            lora == ~("unet.safetensors" \in ArchiveFiles(req.lora_url))
        IN  /\ ("cross_attention_kwargs" \in DOMAIN kw) <=> lora
            /\ lora => kw["cross_attention_kwargs"] = [scale |-> req.lora_scale]
            /\ self["is_lora"] <=> lora

(* C8 as stated: the base pipeline runs with num_inference_steps steps;    *)
(* with base_image_refiner the refiner runs with refine_steps steps when   *)
(* refine_steps is given and num_inference_steps otherwise; with           *)
(* expert_ensemble_refiner the refiner runs with num_inference_steps.      *)
C8_StepCounts ==
    Finished =>
        /\ calls[1].common.num_inference_steps = req.num_inference_steps
        /\ req.refine = "base_image_refiner" =>
            calls[2].common.num_inference_steps =
                IF req.refine_steps # None THEN req.refine_steps[1]
                ELSE req.num_inference_steps
        /\ req.refine = "expert_ensemble_refiner" =>
            calls[2].common.num_inference_steps = req.num_inference_steps

(* C9: the refiner is invoked iff refine is expert_ensemble_refiner or     *)
(* base_image_refiner, exactly once, after the base call and with the base *)
(* stage's latent output as its image; with no_refiner the base stage does *)
(* not switch to latent output; with expert_ensemble_refiner denoising_end *)
(* of the base equals denoising_start of the refiner (high_noise_frac);    *)
(* with base_image_refiner neither is set.                                 *)
C9_RefinerHandOff ==
    InRequest =>
        LET refs == {i \in DOMAIN calls : calls[i].pipe = "refiner"}
        IN  /\ refs \subseteq {2}
            /\ pc \in {"save", "done"} =>
                Cardinality(refs) = IF req.refine \in Refiners THEN 1 ELSE 0
            /\ pc \in {"base", "refine"} => refs = {}
            /\ \A i \in refs :
                /\ calls[1].pipe # "refiner"
                /\ calls[1].returned.type = "latent"
                /\ calls[i].kwargs["image"] = calls[1].returned.images
            /\ Len(calls) >= 1 =>
                LET b == calls[1].kwargs
                IN  /\ ("output_type" \in DOMAIN b) <=> (req.refine \in Refiners)
                    /\ (calls[1].returned.type = "latent")
                           <=> (req.refine \in Refiners)
                    /\ ("denoising_end" \in DOMAIN b)
                           <=> (req.refine = "expert_ensemble_refiner")
                    /\ "denoising_end" \in DOMAIN b =>
                           b["denoising_end"] = req.high_noise_frac
            /\ \A i \in refs :
                LET k == calls[i].kwargs
                IN  /\ ("denoising_start" \in DOMAIN k)
                           <=> (req.refine = "expert_ensemble_refiner")
                    /\ "denoising_start" \in DOMAIN k =>
                        /\ k["denoising_start"] = req.high_noise_frac
                        /\ k["denoising_start"] = calls[1].kwargs["denoising_end"]

C9_Witness ==
    /\ Finished /\ req.refine = "expert_ensemble_refiner" /\ Len(calls) = 2
    /\ Len(calls[2].kwargs["image"]) = 2

(* C10 as stated: the LoRA-versus-full-UNet decision, the weight files     *)
(* merged and the token_map are those of the current request's archive,    *)
(* never of files an earlier archive left in the extraction directory.     *)
C10_OnlyCurrentArchive ==
    InRequest =>
        LET unet == self["txt2img_pipe"].unet
            full == "unet.safetensors" \in ArchiveFiles(req.lora_url)
        IN  /\ unet.kind = IF full THEN "unet" ELSE "lora"
            /\ unet.from = req.lora_url
            /\ self["txt2img_pipe"].embeddings = req.lora_url
            /\ self["token_map"] = TokenMapOf(req.lora_url)

=============================================================================
